---- MODULE Spec2Model ----
(***************************************************************************)
(* Model of the invoice scanner: the OCRDetector component (field          *)
(* extraction by regular expressions, the recognition run, the camera).    *)
(*                                                                         *)
(* Texts are sequences of one-character strings.  The regular expressions  *)
(* of parseFields are written as syntax trees and matched by a             *)
(* backtracking matcher that returns the possible ends of a match in the   *)
(* order a backtracking engine tries them (greedy quantifiers first,       *)
(* alternatives left to right), so the first element is what               *)
(* String.prototype.match reports.                                          *)
(***************************************************************************)
EXTENDS Integers, Sequences, FiniteSets, TLC

(* ---------------------------------------------------------------------- *)
(* Characters                                                              *)
(* ---------------------------------------------------------------------- *)

Digits == {"0", "1", "2", "3", "4", "5", "6", "7", "8", "9"}

LowerLetters ==
  <<"a", "b", "c", "d", "e", "f", "g", "h", "i", "j", "k", "l", "m",
    "n", "o", "p", "q", "r", "s", "t", "u", "v", "w", "x", "y", "z">>

UpperLetters ==
  <<"A", "B", "C", "D", "E", "F", "G", "H", "I", "J", "K", "L", "M",
    "N", "O", "P", "Q", "R", "S", "T", "U", "V", "W", "X", "Y", "Z">>

Range(s) == {s[k] : k \in DOMAIN s}

\* \w of a regular expression without the unicode flag
WordChars == Digits \cup Range(LowerLetters) \cup Range(UpperLetters) \cup {"_"}

\* \s restricted to the characters of the model
Spaces == {" ", "\t", "\n", "\r"}

\* the characters texts are written in
Alphabet == WordChars \cup Spaces \cup {".", ",", "/", "-", ":", "$"}

\* String.prototype.toUpperCase on one character
UpperChar(c) ==
  IF c \in Range(LowerLetters)
  THEN UpperLetters[CHOOSE k \in DOMAIN LowerLetters : LowerLetters[k] = c]
  ELSE c

toUpperCase(s) == [k \in DOMAIN s |-> UpperChar(s[k])]

(* ---------------------------------------------------------------------- *)
(* Regular expressions                                                     *)
(* ---------------------------------------------------------------------- *)

Chr(set) == [t |-> "chr", set |-> set]
WordB == [t |-> "wb"]
Cat(es) == [t |-> "seq", es |-> es]
Alt(es) == [t |-> "alt", es |-> es]
\* e{min,max}, greedy
Rep(e, min, max) == [t |-> "rep", e |-> e, min |-> min, max |-> max]
\* e*, greedy
Star(e) == [t |-> "star", e |-> e]
Opt(e) == Rep(e, 0, 1)
\* a literal word
Lit(s) == [t |-> "lit", s |-> s]

IsWordAt(txt, i) == i >= 1 /\ i <= Len(txt) /\ txt[i] \in WordChars

RECURSIVE Ends(_, _, _), MapEnds(_, _, _), EndsSeq(_, _, _, _),
          EndsAlt(_, _, _, _), EndsRep(_, _, _, _, _, _), MapRep(_, _, _, _, _, _)

\* the ends of the matches of re that start at position i of txt, in the
\* order a backtracking matcher tries them
Ends(re, txt, i) ==
  CASE re.t = "chr" ->
         IF i <= Len(txt) /\ txt[i] \in re.set THEN <<i + 1>> ELSE <<>>
    [] re.t = "lit" ->
         IF i + Len(re.s) <= Len(txt) + 1 /\ SubSeq(txt, i, i + Len(re.s) - 1) = re.s
         THEN <<i + Len(re.s)>> ELSE <<>>
    [] re.t = "wb" ->
         IF IsWordAt(txt, i - 1) # IsWordAt(txt, i) THEN <<i>> ELSE <<>>
    [] re.t = "seq" -> EndsSeq(re.es, 1, txt, <<i>>)
    [] re.t = "alt" -> EndsAlt(re.es, 1, txt, i)
    [] re.t = "rep" -> EndsRep(re.e, re.min, re.max, txt, i, 0)
    [] re.t = "star" -> EndsRep(re.e, 0, Len(txt) + 1, txt, i, 0)

MapEnds(re, txt, starts) ==
  IF starts = <<>> THEN <<>>
  ELSE Ends(re, txt, Head(starts)) \o MapEnds(re, txt, Tail(starts))

EndsSeq(es, k, txt, starts) ==
  IF k > Len(es) \/ starts = <<>> THEN starts
  ELSE EndsSeq(es, k + 1, txt, MapEnds(es[k], txt, starts))

EndsAlt(es, k, txt, i) ==
  IF k > Len(es) THEN <<>>
  ELSE Ends(es[k], txt, i) \o EndsAlt(es, k + 1, txt, i)

\* n repetitions are done; one more is tried before stopping (greedy)
EndsRep(e, min, max, txt, i, n) ==
  (IF n < max THEN MapRep(e, min, max, txt, Ends(e, txt, i), n + 1) ELSE <<>>)
    \o (IF n >= min THEN <<i>> ELSE <<>>)

MapRep(e, min, max, txt, starts, n) ==
  IF starts = <<>> THEN <<>>
  ELSE EndsRep(e, min, max, txt, Head(starts), n)
         \o MapRep(e, min, max, txt, Tail(starts), n)

NoMatch == [found |-> FALSE]

RECURSIVE FirstGroup(_, _, _, _), FirstAt(_, _, _, _), FirstFrom(_, _, _, _, _)

\* the first end q of group, among qs, after which suffix matches
FirstGroup(suffix, txt, p, qs) ==
  IF qs = <<>> THEN NoMatch
  ELSE IF Ends(suffix, txt, Head(qs)) # <<>>
       THEN [found |-> TRUE, s |-> p, e |-> Head(qs)]
       ELSE FirstGroup(suffix, txt, p, Tail(qs))

\* the first match of prefix(group)suffix whose prefix ends at one of ps
FirstAt(group, suffix, txt, ps) ==
  IF ps = <<>> THEN NoMatch
  ELSE LET m == FirstGroup(suffix, txt, Head(ps), Ends(group, txt, Head(ps)))
       IN  IF m.found THEN m ELSE FirstAt(group, suffix, txt, Tail(ps))

\* txt.match(/prefix(group)suffix/): the leftmost start wins; the result is
\* the extent of the captured group
FirstFrom(prefix, group, suffix, txt, i) ==
  IF i > Len(txt) + 1 THEN NoMatch
  ELSE LET m == FirstAt(group, suffix, txt, Ends(prefix, txt, i))
       IN  IF m.found THEN m ELSE FirstFrom(prefix, group, suffix, txt, i + 1)

Match(prefix, group, suffix, txt) == FirstFrom(prefix, group, suffix, txt, 1)

Captured(txt, m) == SubSeq(txt, m.s, m.e - 1)

(* ---------------------------------------------------------------------- *)
(* parseFields                                                             *)
(* ---------------------------------------------------------------------- *)

None == [some |-> FALSE]
Some(v) == [some |-> TRUE, v |-> v]

NoFields == [cnpj |-> None, data |-> None, total |-> None]

RECURSIVE RunLen(_, _, _)
\* the length of the longest run of characters of set that starts at s[i]
RunLen(s, set, i) ==
  IF i <= Len(s) /\ s[i] \in set THEN 1 + RunLen(s, set, i + 1) ELSE 0

RECURSIVE ReplaceRuns(_, _, _, _)

\* s.replace(/[set]{min,}/g, ' ') from position i on
ReplaceRuns(s, set, min, i) ==
  IF i > Len(s) THEN <<>>
  ELSE LET r == RunLen(s, set, i)
       IN  IF r >= min
           THEN <<" ">> \o ReplaceRuns(s, set, min, i + r)
           ELSE <<s[i]>> \o ReplaceRuns(s, set, min, i + 1)

\* the copy without toUpperCase()
NormalizeKeepingCase(text) ==
  ReplaceRuns(ReplaceRuns(text, {"\t", "\r"}, 1, 1), Spaces, 2, 1)

\* text.replace(/[\t\r]+/g, ' ').replace(/\s{2,}/g, ' ').toUpperCase()
Normalize(text) ==
  toUpperCase(ReplaceRuns(ReplaceRuns(text, {"\t", "\r"}, 1, 1), Spaces, 2, 1))

Digit == Chr(Digits)
Sep == Chr({".", "/", "-"})
DateSep == Chr({"-", "/"})
AmountSep == Chr({".", ","})
Ws == Chr(Spaces)

\* \d{2}[\.\/-]?\d{3}[\.\/-]?\d{3}[\.\/-]?\d{4}[\.\/-]?\d{2}
reCnpjBody ==
  Cat(<<Rep(Digit, 2, 2), Opt(Sep), Rep(Digit, 3, 3), Opt(Sep), Rep(Digit, 3, 3),
        Opt(Sep), Rep(Digit, 4, 4), Opt(Sep), Rep(Digit, 2, 2)>>)

\* CNPJ[:\s]*
reCnpjLabel == Cat(<<Lit(<<"C", "N", "P", "J">>), Star(Chr({":"} \cup Spaces))>>)

\* a date with two digits for the day and for the month
reDataBodyTwoDigits ==
  Cat(<<Rep(Digit, 2, 2), DateSep, Rep(Digit, 2, 2), DateSep, Rep(Digit, 4, 4)>>)

\* \d{1,2}[\-\/]\d{1,2}[\-\/]\d{4}
reDataBody ==
  Cat(<<Rep(Digit, 1, 2), DateSep, Rep(Digit, 1, 2), DateSep, Rep(Digit, 4, 4)>>)

\* DATA[:\s]*
reDataLabel == Cat(<<Lit(<<"D", "A", "T", "A">>), Star(Chr({":"} \cup Spaces))>>)

wTOTAL == Lit(<<"T", "O", "T", "A", "L">>)
wVALOR == Lit(<<"V", "A", "L", "O", "R">>)
wPAGAR == Lit(<<"P", "A", "G", "A", "R">>)
wLIQUIDO == Lit(<<"L", "I", "Q", "U", "I", "D", "O">>)
wA == Lit(<<"A">>)

\* the labels followed by .*? in place of [^\d]*: digits are skipped too,
\* the shortest skip first
reTotalLabelSkippingDigits ==
  Cat(<<Alt(<<wTOTAL,
              Cat(<<wVALOR, Star(Ws), wTOTAL>>),
              Cat(<<wVALOR, Star(Ws), wA, Star(Ws), wPAGAR>>),
              Cat(<<wTOTAL, Star(Ws), wA, Star(Ws), wPAGAR>>),
              Cat(<<wVALOR, Star(Ws), wLIQUIDO>>)>>),
        Star(Chr(Alphabet))>>)

\* (TOTAL|VALOR\s*TOTAL|VALOR\s*A\s*PAGAR|TOTAL\s*A\s*PAGAR|VALOR\s*LIQUIDO)[^\d]*
reTotalLabel ==
  Cat(<<Alt(<<wTOTAL,
              Cat(<<wVALOR, Star(Ws), wTOTAL>>),
              Cat(<<wVALOR, Star(Ws), wA, Star(Ws), wPAGAR>>),
              Cat(<<wTOTAL, Star(Ws), wA, Star(Ws), wPAGAR>>),
              Cat(<<wVALOR, Star(Ws), wLIQUIDO>>)>>),
        Star(Chr(Alphabet \ Digits))>>)

\* \d{1,3}(?:[\.\,]\d{3})*[\.\,]\d{2}
reAmount ==
  Cat(<<Rep(Digit, 1, 3), Star(Cat(<<AmountSep, Rep(Digit, 3, 3)>>)),
        AmountSep, Rep(Digit, 2, 2)>>)

Empty == Cat(<<>>)

\* the two patterns of the tax ID tried in the other order
MatchCnpjLabelFirst(txt) ==
  LET m == Match(reCnpjLabel, reCnpjBody, Empty, txt)
  IN  IF m.found THEN m ELSE Match(WordB, reCnpjBody, WordB, txt)

\* the tax ID matched anywhere, not only as a word
MatchCnpjUnanchored(txt) == Match(Empty, reCnpjBody, Empty, txt)

\* txt.match(/\b(cnpj)\b/) || txt.match(/CNPJ[:\s]*(cnpj)/)
MatchCnpj(txt) ==
  LET m == Match(WordB, reCnpjBody, WordB, txt)
  IN  IF m.found THEN m ELSE Match(reCnpjLabel, reCnpjBody, Empty, txt)

\* txt.match(/\b(date)\b/) || txt.match(/DATA[:\s]*(date)/)
MatchData(txt) ==
  LET m == Match(WordB, reDataBody, WordB, txt)
  IN  IF m.found THEN m ELSE Match(reDataLabel, reDataBody, Empty, txt)

\* the pattern of the total after a greedy .* : the last label wins
MatchTotalRightmost(txt) ==
  Match(Cat(<<Star(Chr(Alphabet)), reTotalLabel>>), reAmount, Empty, txt)

\* txt.match(/(label)[^\d]*(amount)/)
MatchTotal(txt) == Match(reTotalLabel, reAmount, Empty, txt)

Remove(s, set) == SelectSeq(s, LAMBDA c : c \notin set)

\* a form with a blank before the last two digits
FormatCnpjBlank(d) ==
  SubSeq(d, 1, 2) \o <<".">> \o SubSeq(d, 3, 5) \o <<".">> \o SubSeq(d, 6, 8)
    \o <<"/">> \o SubSeq(d, 9, 12) \o <<" ">> \o SubSeq(d, 13, 14)

\* the template string of the canonical form, on 14 characters
FormatCnpj(d) ==
  SubSeq(d, 1, 2) \o <<".">> \o SubSeq(d, 3, 5) \o <<".">> \o SubSeq(d, 6, 8)
    \o <<"/">> \o SubSeq(d, 9, 12) \o <<"-">> \o SubSeq(d, 13, 14)

\* the separators removed and nothing more
CleanCnpjDigitsOnly(raw) == Remove(raw, {".", "/", "-"})

\* the matched text kept as it was written
CleanCnpjRaw(raw) == raw

\* cnpj.replace(/[\.\/-]/g, ''), reformatted when 14 characters remain
CleanCnpj(raw) ==
  LET d == Remove(raw, {".", "/", "-"})
  IN  IF Len(d) = 14 THEN FormatCnpj(d) ELSE d

\* s.replace(',', '.'): the first comma only
ReplaceFirstComma(s) ==
  LET at == {k \in DOMAIN s : s[k] = ","}
  IN  IF at = {} THEN s
      ELSE [k \in DOMAIN s |->
              IF k = (CHOOSE j \in at : \A i \in at : j <= i) THEN "." ELSE s[k]]

DigitVal(c) == CHOOSE n \in 0..9 : <<"0", "1", "2", "3", "4", "5", "6", "7", "8", "9">>[n + 1] = c

RECURSIVE NatOf(_)
NatOf(ds) == IF ds = <<>> THEN 0 ELSE 10 * NatOf(SubSeq(ds, 1, Len(ds) - 1)) + DigitVal(ds[Len(ds)])

RECURSIVE Decimal(_, _)
\* the number m / 10^k, written so that equal numbers are equal values
Decimal(m, k) ==
  IF k > 0 /\ m % 10 = 0 THEN Decimal(m \div 10, k - 1) ELSE [m |-> m, k |-> k]

NaN == [nan |-> TRUE]

\* parseFloat on a string without sign or exponent: the longest prefix
\* digits[.digits] is read
parseFloat(s) ==
  LET n == RunLen(s, Digits, 1)
      f == IF n + 1 <= Len(s) /\ s[n + 1] = "." THEN RunLen(s, Digits, n + 2) ELSE 0
  IN  IF n = 0 /\ f = 0 THEN NaN
      ELSE Decimal(NatOf(SubSeq(s, 1, n) \o SubSeq(s, n + 2, n + 1 + f)), f)

\* the dots left where they are
ParseTotalKeepingDots(totalStr) ==
  LET parsedTotal == parseFloat(ReplaceFirstComma(totalStr))
  IN  IF parsedTotal # NaN THEN Some(parsedTotal) ELSE None

\* totalStr.replace(/\./g, '').replace(',', '.') and parseFloat
ParseTotal(totalStr) ==
  LET cleanTotal == ReplaceFirstComma(Remove(totalStr, {"."}))
      parsedTotal == parseFloat(cleanTotal)
  IN  IF parsedTotal # NaN THEN Some(parsedTotal) ELSE None

\* the value parseFields hands to setExtractedFields
ParseFields(text) ==
  IF text = <<>> THEN NoFields
  ELSE LET txt == Normalize(text)
           mCNPJ == MatchCnpj(txt)
           mData == MatchData(txt)
           mTotal == MatchTotal(txt)
       IN  [cnpj |-> IF mCNPJ.found THEN Some(CleanCnpj(Captured(txt, mCNPJ))) ELSE None,
            data |-> IF mData.found THEN Some(Captured(txt, mData)) ELSE None,
            total |-> IF mTotal.found THEN ParseTotal(Captured(txt, mTotal)) ELSE None]

(* ---------------------------------------------------------------------- *)
(* Texts of the model                                                      *)
(* ---------------------------------------------------------------------- *)

\* s.trim()
RECURSIVE TrimLeft(_), TrimRight(_)
TrimLeft(s) == IF s # <<>> /\ Head(s) \in Spaces THEN TrimLeft(Tail(s)) ELSE s
TrimRight(s) ==
  IF s # <<>> /\ s[Len(s)] \in Spaces THEN TrimRight(SubSeq(s, 1, Len(s) - 1)) ELSE s
Trim(s) == TrimLeft(TrimRight(s))

sTOTAL == <<"T", "O", "T", "A", "L">>
sVALOR_TOTAL == <<"V", "A", "L", "O", "R", " ", "T", "O", "T", "A", "L">>
sVALOR_A_PAGAR == <<"V", "A", "L", "O", "R", " ", "A", " ", "P", "A", "G", "A", "R">>
sTOTAL_A_PAGAR == <<"T", "O", "T", "A", "L", " ", "A", " ", "P", "A", "G", "A", "R">>
sVALOR_LIQUIDO == <<"V", "A", "L", "O", "R", " ", "L", "I", "Q", "U", "I", "D", "O">>
sValorLiquidoLower == <<"v", "a", "l", "o", "r", "\t", "l", "i", "q", "u", "i", "d", "o">>
sTotalMixed == <<"T", "o", "t", "a", "l">>

\* label occurrences as they are written in a document
LabelTexts ==
  {sTOTAL, sVALOR_TOTAL, sVALOR_A_PAGAR, sTOTAL_A_PAGAR, sVALOR_LIQUIDO,
   sValorLiquidoLower, sTotalMixed}

\* the longest run of spaces written between a label and its amount
MaxGap == 1

Blanks(n) == [k \in 1..n |-> " "]

\* what stands between a label and its amount
GapTexts == {<<":">> \o Blanks(n) : n \in 0..MaxGap} \cup {Blanks(1), <<" ", "R", "$", " ">>}

\* what stands before and after the fields of a document
Layouts ==
  {[b |-> <<>>, e |-> <<>>],
   [b |-> <<"N", "O", "T", "A", "\n">>, e |-> <<"\n", "F", "I", "M", " ", "7">>]}

\* amounts with '.' as the decimal point and no thousands separator,
\* with their value as the number m / 10^k
DotAmounts ==
  {[s |-> <<"4", "5", ".", "0", "0">>, m |-> 4500, k |-> 2],
   [s |-> <<"9", ".", "9", "9">>, m |-> 999, k |-> 2],
   [s |-> <<"1", "2", "3", ".", "4", "5">>, m |-> 12345, k |-> 2]}

\* amounts with ',' as the decimal point and '.' between groups of three
CommaAmounts ==
  {[s |-> <<"1", ".", "2", "3", "4", ",", "5", "6">>, m |-> 123456, k |-> 2],
   [s |-> <<"4", "5", ",", "0", "0">>, m |-> 4500, k |-> 2],
   [s |-> <<"0", ",", "1", "0">>, m |-> 10, k |-> 2],
   [s |-> <<"1", "2", ".", "3", "4", "5", ".", "6", "7", "8", ",", "9", "0">>, m |-> 1234567890, k |-> 2]}

\* documents with one labelled amount
AmountCases(labels, amounts) ==
  {[text |-> y.b \o l \o g \o a.s \o y.e, total |-> Decimal(a.m, a.k)] :
     y \in Layouts, l \in labels, g \in GapTexts, a \in amounts}

DotCases == AmountCases({sVALOR_LIQUIDO, sTOTAL}, DotAmounts)
CommaCases == AmountCases(LabelTexts, CommaAmounts)

\* 14 digits, and the same digits in the form DD.DDD.DDD/DDDD-DD
TaxIds ==
  {[d |-> <<"1", "2", "3", "4", "5", "6", "7", "8", "0", "0", "0", "1", "9", "9">>, canon |-> <<"1", "2", ".", "3", "4", "5", ".", "6", "7", "8", "/", "0", "0", "0", "1", "-", "9", "9">>],
   [d |-> <<"0", "0", "6", "2", "3", "9", "0", "4", "0", "0", "0", "1", "7", "3">>, canon |-> <<"0", "0", ".", "6", "2", "3", ".", "9", "0", "4", "/", "0", "0", "0", "1", "-", "7", "3">>]}

\* the separators of the canonical form, each written or left out
SepChoices == {<<>>, <<".">>} \X {<<>>, <<".">>} \X {<<>>, <<"/">>} \X {<<>>, <<"-">>}

\* the same positions written with other separators of the pattern
OddSepChoices == {<<<<"/">>, <<"-">>, <<".">>, <<".">>>>, <<<<"-">>, <<>>, <<"-">>, <<"/">>>>}

WriteTaxId(d, c) ==
  SubSeq(d, 1, 2) \o c[1] \o SubSeq(d, 3, 5) \o c[2] \o SubSeq(d, 6, 8) \o c[3]
    \o SubSeq(d, 9, 12) \o c[4] \o SubSeq(d, 13, 14)

\* what a tax ID stands between, as a word of its own
TaxIdLayouts ==
  Layouts \cup {[b |-> <<"C", "N", "P", "J", ":", " ">>, e |-> <<" ", "I", "E", " ", "9", "9">>], [b |-> <<"N", "F", " ", "1", "2", "3", " ">>, e |-> <<"\n">>]}

\* documents with one tax ID
TaxIdCases ==
  {[text |-> y.b \o WriteTaxId(x.d, c) \o y.e, cnpj |-> x.canon] :
     y \in TaxIdLayouts, x \in TaxIds, c \in SepChoices \cup OddSepChoices}

\* documents whose tax ID is written in the canonical form
CanonCases == {c \in TaxIdCases : \E x \in TaxIds : \E y \in TaxIdLayouts :
                 c.text = y.b \o x.canon \o y.e}

\* dates as written, valid or not
DateTexts ==
  {<<"0", "5", "/", "0", "3", "/", "2", "0", "2", "4">>, <<"3", "1", "/", "0", "2", "/", "9", "9", "9", "9">>, <<"1", "-", "2", "-", "2", "0", "2", "4">>, <<"5", "/", "1", "3", "/", "2", "0", "2", "4">>, <<"0", "5", "-", "0", "3", "/", "2", "0", "2", "4">>}

DateLayouts ==
  Layouts \cup {[b |-> <<"D", "A", "T", "A", ":", " ">>, e |-> <<" ", "1", "0", ":", "3", "0">>],
                [b |-> <<"N", "F", " ", "1", "2", " ">>, e |-> <<" ", "0", "1", "/", "0", "1", "/", "2", "0", "0", "0">>]}

\* documents with a date, first of all if there are several
DateCases ==
  {[text |-> y.b \o d \o y.e, data |-> d] : y \in DateLayouts, d \in DateTexts}

\* documents in which none of the three fields is written
NoFieldTexts ==
  {<<>>, Blanks(2), <<"\n">>,
   <<"O", "L", "A", " ", "M", "U", "N", "D", "O">>,
   <<"T", "O", "T", "A", "L">>,
   <<"T", "o", "t", "a", "l", ":", " ", "R", "$">>,
   <<"T", "O", "T", "A", "L", " ", "1", "2", "3", "4", ",", "5", "6">>,
   <<"T", "O", "T", "A", "L", " ", "1", "2", " ", "3", ",", "4", "5">>,
   <<"V", "A", "L", "O", "R", " ", "4", "5", ",", "0", "0">>,
   <<"4", "5", ",", "0", "0", " ", "T", "O", "T", "A", "L">>,
   <<"1", "2", "3", "4", "5", "6", "7", "8", "0", "0", "0", "1", "9", "9", "0">>,
   <<"1", "2", "3", "4", "5", "6", "7", "8", "0", "0", "0", "1", "9">>,
   <<"1", "2", ".", "3", "4", "5", ".", "6", "7", "8", "/", "0", "0", "0", "1", "-", "9">>,
   <<"X", "1", "2", "3", "4", "5", "6", "7", "8", "0", "0", "0", "1", "9", "9">>,
   <<"1", "2", " ", "3", "4", "5", " ", "6", "7", "8", " ", "0", "0", "0", "1", " ", "9", "9">>,
   <<"0", "5", "/", "0", "3", "/", "2", "4">>,
   <<"0", "5", ".", "0", "3", ".", "2", "0", "2", "4">>,
   <<"1", "0", "5", "/", "0", "3", "/", "2", "0", "2", "4">>,
   <<"0", "5", "/", "0", "3", "/", "2", "0", "2", "4", "5">>,
   <<"C", "N", "P", "J", ":", " ", "1", "2", ".", "3", "4", "5">>,
   <<"D", "A", "T", "A", ":", " ", "5", "/", "3">>}

\* documents in which the labelled pattern matches before the place where
\* the plain pattern matches, with what the plain pattern finds
PriorityCases ==
  {[text |-> <<"C", "N", "P", "J", ":", " ", "1", "2", "3", "4", "5", "6", "7", "8", "0", "0", "0", "1", "9", "9", "9", " ", "1", "1", ".", "2", "2", "2", ".", "3", "3", "3", "/", "0", "0", "0", "1", "-", "4", "4">>,
    cnpj |-> Some(<<"1", "1", ".", "2", "2", "2", ".", "3", "3", "3", "/", "0", "0", "0", "1", "-", "4", "4">>), data |-> None],
   [text |-> <<"C", "N", "P", "J", "1", "2", "3", "4", "5", "6", "7", "8", "0", "0", "0", "1", "9", "9", " ", "1", "1", "2", "2", "2", "3", "3", "3", "0", "0", "0", "1", "4", "4">>,
    cnpj |-> Some(<<"1", "1", ".", "2", "2", "2", ".", "3", "3", "3", "/", "0", "0", "0", "1", "-", "4", "4">>), data |-> None],
   [text |-> <<"D", "A", "T", "A", ":", " ", "0", "5", "/", "0", "3", "/", "2", "0", "2", "4", "5", " ", "0", "1", "/", "0", "1", "/", "2", "0", "0", "0">>,
    cnpj |-> None, data |-> Some(<<"0", "1", "/", "0", "1", "/", "2", "0", "0", "0">>)],
   [text |-> <<"d", "a", "t", "a", ":", "5", "/", "3", "/", "2", "0", "2", "4", "x", " ", "1", "-", "1", "-", "2", "0", "0", "0">>,
    cnpj |-> None, data |-> Some(<<"1", "-", "1", "-", "2", "0", "0", "0">>)],
   [text |-> <<"D", "A", "T", "A", "0", "5", "/", "0", "3", "/", "2", "0", "2", "4", " ", "C", "N", "P", "J", ":", "1", "2", "3", "4", "5", "6", "7", "8", "0", "0", "0", "1", "9", "9", "X", " ", "0", "2", "/", "0", "2", "/", "2", "0", "0", "2", " ", "1", "1", "2", "2", "2", "3", "3", "3", "0", "0", "0", "1", "4", "4">>,
    cnpj |-> Some(<<"1", "1", ".", "2", "2", "2", ".", "3", "3", "3", "/", "0", "0", "0", "1", "-", "4", "4">>), data |-> Some(<<"0", "2", "/", "0", "2", "/", "2", "0", "0", "2">>)]}

\* documents in which only the labelled pattern matches
LabelOnlyCases ==
  {[text |-> <<"C", "N", "P", "J", ":", " ", "1", "2", "3", "4", "5", "6", "7", "8", "0", "0", "0", "1", "9", "9", "9">>,
    cnpj |-> Some(<<"1", "2", ".", "3", "4", "5", ".", "6", "7", "8", "/", "0", "0", "0", "1", "-", "9", "9">>), data |-> None],
   [text |-> <<"c", "n", "p", "j", "1", "2", ".", "3", "4", "5", ".", "6", "7", "8", "/", "0", "0", "0", "1", "-", "9", "9", "x">>,
    cnpj |-> Some(<<"1", "2", ".", "3", "4", "5", ".", "6", "7", "8", "/", "0", "0", "0", "1", "-", "9", "9">>), data |-> None],
   [text |-> <<"D", "A", "T", "A", ":", " ", "0", "5", "/", "0", "3", "/", "2", "0", "2", "4", "5">>,
    cnpj |-> None, data |-> Some(<<"0", "5", "/", "0", "3", "/", "2", "0", "2", "4">>)],
   [text |-> <<"D", "a", "t", "a", " ", "5", "/", "3", "/", "2", "0", "2", "4", "x">>,
    cnpj |-> None, data |-> Some(<<"5", "/", "3", "/", "2", "0", "2", "4">>)]}

\* one labelled amount as it is written, with its value
Labelled(label, a) == [s |-> label \o <<" ">> \o a.s, total |-> Decimal(a.m, a.k)]

LabelledAmounts ==
  {Labelled(l, a) : l \in {sTOTAL, sVALOR_A_PAGAR, sValorLiquidoLower},
                    a \in {[s |-> <<"4", "5", ",", "0", "0">>, m |-> 4500, k |-> 2],
                           [s |-> <<"1", ".", "2", "3", "4", ",", "5", "6">>, m |-> 123456, k |-> 2],
                           [s |-> <<"0", ",", "1", "0">>, m |-> 10, k |-> 2]}}

\* documents with several labelled amounts, with the value of the leftmost
\* one that a label begins and a valid amount follows
LeftmostCases ==
  {[text |-> q[1].s \o q[3] \o q[2].s, total |-> q[1].total] :
     q \in {p \in LabelledAmounts \X LabelledAmounts \X {<<" ">>, <<"\n">>} :
              p[1].total # p[2].total}}
  \cup {[text |-> <<"T", "O", "T", "A", "L", " ", "1", "2", " ">> \o y.s, total |-> y.total] : y \in LabelledAmounts}
  \cup {[text |-> <<"S", "U", "B", "T", "O", "T", "A", "L", " ", "5", ",", "0", "0", " ", "T", "O", "T", "A", "L", " ", "9", ",", "9", "9">>, total |-> Decimal(500, 2)],
        [text |-> <<"T", "O", "T", "A", "L", " ", "V", "A", "L", "O", "R", " ", "T", "O", "T", "A", "L", " ", "3", ",", "0", "0", " ", "T", "O", "T", "A", "L", " ", "4", ",", "0", "0">>, total |-> Decimal(300, 2)],
        [text |-> <<"V", "a", "l", "o", "r", ":", " ", "1", ",", "0", "0", " ", "t", "o", "t", "a", "l", " ", "2", ",", "0", "0", " ", "v", "a", "l", "o", "r", " ", "l", "i", "q", "u", "i", "d", "o", " ", "3", ",", "0", "0">>, total |-> Decimal(200, 2)]}

\* digits that begin no amount, as they are written after a label
BadStarts == {<<"1", "2", "3", "4", ",", "5", "6">>, <<"1", "2">>, <<"1", ",", "2">>, <<"7">>, <<"1", "2", "3", "4", ".", "5", "6">>, <<"1", "2", ",", "3">>}

\* documents in which the first digits after the only label begin no amount
\* and an amount stands further on
FirstDigitCases ==
  {l \o g \o b \o sep \o <<"3", ",", "4", "5">> :
     l \in {sTOTAL, sVALOR_LIQUIDO, sTotalMixed}, g \in {<<" ">>, <<":", " ", "R", "$", " ">>},
     b \in BadStarts, sep \in {<<" ">>, <<"\n">>, <<" ", "x", " ">>}}

Texts(cases) == {c.text : c \in cases}

\* the documents field extraction is explored on
ExtractTexts ==
  Texts(DotCases) \cup Texts(CommaCases) \cup Texts(TaxIdCases) \cup Texts(DateCases)
    \cup NoFieldTexts \cup Texts(PriorityCases) \cup Texts(LabelOnlyCases)
    \cup Texts(LeftmostCases) \cup FirstDigitCases

(* ---------------------------------------------------------------------- *)
(* preprocessIfNeeded: the normalizer                                      *)
(* ---------------------------------------------------------------------- *)

\* An image is [width, height, px]: its dimensions and the pixels that
\* drawImage paints for it on a canvas of the scaled size under the filter
\* 'contrast(1.2) brightness(1.1)'.  Scaling and filtering are the
\* browser's; what they give is part of the picture.  A buffer of the model
\* has at most MaxPixels pixels whatever the dimensions.

maxW == 1600

MaxPixels == 2

Pixel(r, g, b, a) == [r |-> r, g |-> g, b |-> b, a |-> a]

Transparent == Pixel(0, 0, 0, 0)

\* Math.round(n / d) replaced by Math.floor(n / d)
RoundDown(n, d) == n \div d

\* Math.round(n / d) for n >= 0 and d > 0: halves go up
Round(n, d) == (2 * n + d) \div (2 * d)

\* w = Math.round(image.width * Math.min(1, maxW / image.width))
ScaledWidth(image) ==
  IF image.width <= maxW THEN image.width ELSE Round(image.width * maxW, image.width)

\* h = Math.round(image.height * Math.min(1, maxW / image.width))
ScaledHeight(image) ==
  IF image.width <= maxW THEN image.height
  ELSE Round(image.height * maxW, image.width)

\* a canvas that keeps its pixels when its width and height are assigned
SetSizeKeeping(canvas, w, h, n) ==
  [width |-> w, height |-> h,
   px |-> [i \in 1..n |-> IF i <= Len(canvas.px) THEN canvas.px[i] ELSE Transparent]]

\* canvas.width = w; canvas.height = h: the canvas is cleared to transparent
\* black, n pixels of it
SetSize(canvas, w, h, n) ==
  [width |-> w, height |-> h, px |-> [i \in 1..n |-> Transparent]]

\* ctx.drawImage(image, 0, 0, w, h): an opaque pixel replaces the pixel of
\* the canvas, a transparent one leaves it
DrawImage(canvas, image) ==
  [canvas EXCEPT !.px = [i \in DOMAIN canvas.px |->
                           IF image.px[i].a = 255 THEN image.px[i] ELSE canvas.px[i]]]

\* y = 0.299 * d[i] + 0.587 * d[i + 1] + 0.114 * d[i + 2], in thousandths
Luma(p) == 299 * p.r + 587 * p.g + 114 * p.b

RECURSIVE SumLuma(_)
\* sum += y over the pixels of d
SumLuma(d) == IF d = <<>> THEN 0 ELSE Luma(Head(d)) + SumLuma(Tail(d))

\* the second loop with y >= mean * 0.9
BinarizeInclusive(d) ==
  [i \in DOMAIN d |->
     LET v == IF 10 * Len(d) * Luma(d[i]) >= 9 * SumLuma(d) THEN 255 ELSE 0
     IN  Pixel(v, v, v, 255)]

\* the second loop: v = y > mean * 0.9 ? 255 : 0 with mean = sum / n, that
\* is 10 * n * y > 9 * sum; d[i] = d[i + 1] = d[i + 2] = v; d[i + 3] = 255
Binarize(d) ==
  [i \in DOMAIN d |->
     LET v == IF 10 * Len(d) * Luma(d[i]) > 9 * SumLuma(d) THEN 255 ELSE 0
     IN  Pixel(v, v, v, 255)]

\* image.onload: what the canvas holds when canvas.toBlob is called, for
\* the canvas as it was before
Preprocess(image, canvas) ==
  LET w == ScaledWidth(image)
      h == ScaledHeight(image)
      drawn == DrawImage(SetSize(canvas, w, h, Len(image.px)), image)
  IN  [drawn EXCEPT !.px = Binarize(drawn.px)]

NoImage == [width |-> 0, height |-> 0, px |-> <<>>]

\* the canvas of the first render: 300 by 150, transparent
BlankCanvas == SetSize(NoImage, 300, 150, MaxPixels)

Black == Pixel(0, 0, 0, 255)
White == Pixel(255, 255, 255, 255)
Grey == Pixel(100, 100, 100, 255)
Red == Pixel(255, 0, 0, 255)

\* the pixels of the pictures
Palette == {Black, White, Grey, Red, Transparent}

\* the buffers of one to MaxPixels pixels
Buffers == UNION {[1..n -> Palette] : n \in 1..MaxPixels}

\* the dimensions of the pictures: small, at the maximum width, above it,
\* with scaled heights that fall on a half and under a half
Dimensions ==
  {<<1, 1>>, <<2, 1>>, <<1600, 1200>>, <<1601, 1200>>, <<3200, 1>>, <<3200, 3>>,
   <<3200, 2400>>, <<4000, 3>>, <<6400, 1>>}

sPicture == [width |-> 2, height |-> 1, px |-> <<White, Black>>]

\* the pictures the normalizer is explored on: every buffer at two sizes,
\* every size with two buffers
Pictures ==
  {[width |-> s[1], height |-> s[2], px |-> d] :
     s \in {<<2, 1>>, <<3200, 3>>}, d \in Buffers}
    \cup {[width |-> s[1], height |-> s[2], px |-> d] :
            s \in Dimensions, d \in {<<White, Black>>, <<Grey, Transparent>>}}

\* what the canvas may hold when preprocessIfNeeded begins: nothing, an
\* earlier capture, an earlier normalization
CanvasContents ==
  {BlankCanvas,
   [width |-> 2, height |-> 1, px |-> <<Red, White>>],
   [width |-> 1600, height |-> 2, px |-> <<White, White>>]}

(* ---------------------------------------------------------------------- *)
(* The OCRDetector component                                               *)
(* ---------------------------------------------------------------------- *)

\* recognition runs started in one behaviour
MaxRuns == 1

\* camera requests pending at a time
MaxCam == 1

\* camera streams open at a time
MaxStreams == 2

\* calls of parseFields on an unchanged text that are counted
MaxRepeat == 2

\* calls of runOCR that can be in progress at a time where the claim is that
\* there is one
MaxOverlap == 2

\* images: where the pixels come from, and how many times they were normalized
Blob(id) == [id |-> id, norm |-> 0]
NoBlob == Blob("none")
Frame == Blob("frame")
Sample == Blob("exemplo.png")

\* the image files the user can select: one that decodes, one that does not
ImageFiles == {Blob("receipt"), Blob("corrupt")}

Decodes(b) == b.id \notin {"none", "corrupt"}

\* the buffer canvas.toBlob yields for the normalized image
Normalized(b) == [b EXCEPT !.norm = 1]

\* the texts of the files and the texts the engine reads in the images:
\* the texts without fields, a blank text, and two receipts, with the
\* blanks the engine leaves around the text
sReceipt ==
  <<"T", "o", "t", "a", "l", ":", " ", "1", ",", "5", "0", "\n">>
sReceiptFull ==
  <<" ", "C", "N", "P", "J", " ", "1", "2", "3", "4", "5", "6", "7", "8", "0", "0", "0", "1", "9", "9", "\n">>
    \o <<"0", "5", "/", "0", "3", "/", "2", "0", "2", "4", "\n">>
    \o <<"T", "O", "T", "A", "L", " ", "9", ",", "9", "9", "\n">>

\* texts without fields: empty, blank, and one that nearly matches for each
\* pattern
sNoFields ==
  {<<>>, <<" ", "\n">>,
   <<"O", "L", "A", " ", "M", "U", "N", "D", "O">>,
   <<"1", "2", "3", "4", "5", "6", "7", "8", "0", "0", "0", "1", "9", "9", "0">>,
   <<"0", "5", "/", "0", "3", "/", "2", "4">>,
   <<"T", "O", "T", "A", "L", " ", "1", "2", "3", "4", ",", "5", "6">>}

Documents == sNoFields \cup {sReceipt, sReceiptFull}

\* m.progress of the logger, in percent
ProgressValues == {50}

VARIABLES
  imageUrl,         \* the image the preview URL refers to, or NoBlob
  mode,             \* "upload" or "webcam"
  webcamActive,
  webcamError,
  ocrStatus,
  ocrProgress,
  ocrResult,        \* the recognized text, shown in the text area
  extractedFields,  \* the fields shown under it
  preprocessImage,
  currentBlob,
  isProcessing,
  streamRef,        \* whether streamRef.current holds a stream
  video,            \* the video element: "none", "empty", "attached", "playing"
  liveStreams,      \* camera streams whose tracks were not stopped
  camPending,       \* getUserMedia requests not yet answered
  metaPending,      \* whether a loadedmetadata event is still to come
  samplePending,    \* whether the fetch of the sample image is pending
  document,         \* the text of the user's document: what its text file holds
  picture,          \* the picture of the user's images, as it decodes
                    \* and what the engine reads off its image
  reading,          \* whether a FileReader load is pending
  runs,             \* the calls of runOCR, each with its closure and position
  toast,            \* the title of the last notice
  extractions,      \* calls of parseFields on the text now in ocrResult
  user,             \* App: the signed-in user, or null
  isLoading,        \* App: whether the session check is still awaited
  sessionPending,   \* App: whether getSession has yet to answer
  session,          \* the session the authentication service holds: its user, or null
  records,          \* AdminDashboard: the rows loaded
  filteredRecords,  \* AdminDashboard: the rows shown
  searchTerm,       \* AdminDashboard: the text of the search box
  isLoadingRecords, \* AdminDashboard: its isLoading flag
  loads,            \* AdminDashboard: calls of loadRecords awaiting an answer
  filterPending     \* AdminDashboard: whether the filter effect is to run

textVars == <<ocrResult, extractedFields, extractions>>
\* what the handlers never write
otherVars ==
  <<document, picture, user, isLoading, sessionPending, session, records, filteredRecords,
    searchTerm, isLoadingRecords, loads, filterPending>>
fileVars == <<otherVars, reading, samplePending>>
imageVars == <<imageUrl, currentBlob>>
camVars == <<webcamActive, webcamError, streamRef, video, liveStreams, camPending, metaPending>>
runVars == <<runs, isProcessing, ocrStatus, ocrProgress>>

vars ==
  <<imageUrl, mode, webcamActive, webcamError, ocrStatus, ocrProgress, ocrResult,
    extractedFields, preprocessImage, currentBlob, isProcessing, streamRef, video,
    liveStreams, camPending, metaPending, samplePending, document, picture,
    reading, runs, toast, extractions, user, isLoading, sessionPending, session, records,
    filteredRecords, searchTerm, isLoadingRecords, loads, filterPending>>

IdleRun ==
  [pc |-> "idle", blob0 |-> NoBlob, mode0 |-> "upload", pre0 |-> FALSE,
   frame |-> NoBlob, blob |-> NoBlob, worker |-> "none", text |-> <<>>,
   calls |-> 0, outcome |-> "none", image |-> NoImage]

\* the calls of runOCR that are followed
RunIds == DOMAIN runs

\* the state after the first render, with room for n calls of runOCR
InitDetector(n) ==
  /\ imageUrl = NoBlob
  /\ mode = "upload"
  /\ webcamActive = FALSE
  /\ webcamError = ""
  /\ ocrStatus = ""
  /\ ocrProgress = 0
  /\ ocrResult = <<>>
  /\ extractedFields = NoFields
  /\ preprocessImage = FALSE
  /\ currentBlob = NoBlob
  /\ isProcessing = FALSE
  /\ streamRef = FALSE
  /\ video = "none"
  /\ liveStreams = 0
  /\ camPending = 0
  /\ metaPending = FALSE
  /\ samplePending = FALSE
  /\ reading = FALSE
  /\ runs = [r \in 1..n |-> IdleRun]
  /\ toast = ""
  /\ extractions = 0

\* the state after the first render
InitComponent == InitDetector(MaxRuns)

\* the texts of the files and of the recognitions
KnownTexts == ExtractTexts \cup {Trim(d) : d \in Documents}

\* ParseFields on the texts of the model, computed once
FieldsOf == [t \in KnownTexts |-> ParseFields(t)]

\* the value parseFields(text) hands to setExtractedFields
parseFields(text) == IF text \in KnownTexts THEN FieldsOf[text] ELSE ParseFields(text)

\* setOcrResult(text); parseFields(text)
SetAndParse(text) ==
  /\ ocrResult' = text
  /\ extractedFields' = parseFields(text)
  /\ extractions' = IF text = ocrResult /\ extractions < MaxRepeat
                    THEN extractions + 1
                    ELSE IF text = ocrResult THEN extractions ELSE 1

\* setOcrResult(""); setExtractedFields({ cnpj: null, data: null, total: null })
ClearResult ==
  /\ ocrResult' = <<>>
  /\ extractedFields' = NoFields
  /\ extractions' = 0

\* stopWebcam: the tracks of the stream streamRef holds are stopped
StopWebcam ==
  /\ streamRef' = FALSE
  /\ liveStreams' = IF streamRef THEN liveStreams - 1 ELSE liveStreams
  /\ webcamActive' = FALSE

\* setPreview(file); setMode("upload"); stopWebcam()
ShowImage(file) ==
  /\ currentBlob' = file
  /\ imageUrl' = file
  /\ ClearResult
  /\ mode' = "upload"
  /\ video' = "none"
  /\ StopWebcam

\* onFileChange with a file of type text/plain: the read is started
FileChangeTxt ==
  /\ reading = FALSE
  /\ reading' = TRUE
  /\ UNCHANGED <<textVars, imageVars, mode, preprocessImage, camVars, runVars, toast,
                 otherVars, samplePending>>

\* reader.onload
TxtLoaded ==
  /\ reading = TRUE
  /\ reading' = FALSE
  /\ IF document # <<>>
     THEN SetAndParse(document) /\ toast' = "Arquivo TXT carregado"
     ELSE UNCHANGED <<textVars, toast>>
  /\ UNCHANGED <<imageVars, mode, preprocessImage, camVars, runVars, otherVars,
                 samplePending>>

\* onFileChange with a file of type image/*
FileChangeImage ==
  \E file \in ImageFiles :
    /\ ShowImage(file)
    /\ UNCHANGED <<preprocessImage, webcamError, camPending, metaPending, runVars, toast,
                   fileVars>>

\* an unsupported file handled as setPreview handles an image: the result
\* is cleared
FileChangeOtherClearing ==
  /\ toast' = "Formato não suportado"
  /\ ClearResult
  /\ UNCHANGED <<imageVars, mode, preprocessImage, camVars, runVars, fileVars>>

\* onFileChange with a file of another type
FileChangeOther ==
  /\ toast' = "Formato não suportado"
  /\ UNCHANGED <<textVars, imageVars, mode, preprocessImage, camVars, runVars, fileVars>>

\* what the user can type or paste into the text area: nothing, the file's
\* text, or the tax ID that is displayed
Typed ==
  {<<>>, document}
    \cup (IF extractedFields.cnpj.some THEN {extractedFields.cnpj.v} ELSE {})

\* the text area's onChange
TextareaChange ==
  \E t \in Typed \ {ocrResult} :
    /\ ocrResult' = t
    /\ extractions' = 0
    /\ UNCHANGED <<extractedFields, imageVars, mode, preprocessImage, camVars, runVars,
                   toast, fileVars>>

\* an extraction that finds nothing when it is repeated, as a pattern with
\* the sticky flag would
ReExtractSticky ==
  /\ ocrResult # <<>>
  /\ ocrResult' = ocrResult
  /\ extractedFields' = IF extractions > 0 THEN NoFields ELSE ParseFields(ocrResult)
  /\ extractions' = IF extractions < MaxRepeat THEN extractions + 1 ELSE extractions
  /\ UNCHANGED <<imageVars, mode, preprocessImage, camVars, runVars, toast, fileVars>>

\* the button "Re-extrair Campos"
ReExtract ==
  /\ ocrResult # <<>>
  /\ SetAndParse(ocrResult)
  /\ UNCHANGED <<imageVars, mode, preprocessImage, camVars, runVars, toast, fileVars>>

\* the checkbox "Pré-processar"
TogglePreprocess ==
  /\ preprocessImage' = ~preprocessImage
  /\ UNCHANGED <<textVars, imageVars, mode, camVars, runVars, toast, fileVars>>

\* the button "Upload"
UploadButton ==
  /\ mode' = "upload"
  /\ video' = "none"
  /\ StopWebcam
  /\ UNCHANGED <<textVars, imageVars, preprocessImage, webcamError, camPending,
                 metaPending, runVars, toast, fileVars>>

\* the cleanup of the effect on imageUrl (lines 39-49), run when imageUrl
\* changes: a stream that streamRef holds is stopped
CleanupEffect(changed) ==
  IF changed /\ streamRef
  THEN StopWebcam
  ELSE UNCHANGED <<webcamActive, streamRef, liveStreams>>

\* the button "Webcam"
WebcamButton ==
  /\ mode' = "webcam"
  /\ video' = IF mode = "webcam" THEN video ELSE "empty"
  /\ imageUrl' = NoBlob
  /\ CleanupEffect(imageUrl # NoBlob)
  /\ ClearResult
  /\ webcamError' = ""
  /\ UNCHANGED <<currentBlob, preprocessImage, camPending, metaPending, runVars, toast,
                 fileVars>>

\* the button "Exemplo": the sample image is fetched
HandleSample ==
  /\ samplePending = FALSE
  /\ samplePending' = TRUE
  /\ UNCHANGED <<textVars, imageVars, mode, preprocessImage, camVars, runVars, toast,
                 otherVars, reading>>

\* the fetch of the sample has answered
SampleLoaded ==
  /\ samplePending = TRUE
  /\ samplePending' = FALSE
  /\ ShowImage(Sample)
  /\ UNCHANGED <<preprocessImage, webcamError, camPending, metaPending, runVars, toast,
                 otherVars, reading>>

\* the fetch of the sample has failed
SampleFailed ==
  /\ samplePending = TRUE
  /\ samplePending' = FALSE
  /\ toast' = "Erro"
  /\ UNCHANGED <<textVars, imageVars, mode, preprocessImage, camVars, runVars, otherVars,
                 reading>>

\* startWebcam's catch block
WebcamFailed(message) ==
  /\ webcamError' = message
  /\ toast' = "Erro na webcam"
  /\ StopWebcam

\* the button "Iniciar Webcam", shown over the video while the camera is off:
\* without navigator.mediaDevices the call fails at once, else the camera
\* is requested
StartWebcam ==
  /\ mode = "webcam" /\ ~webcamActive
  /\ \/ /\ WebcamFailed("Seu navegador não suporta acesso à câmera")
        /\ UNCHANGED <<camPending, video, metaPending>>
     \/ /\ camPending < MaxCam /\ liveStreams < MaxStreams
        /\ camPending' = camPending + 1
        /\ webcamError' = ""
        /\ UNCHANGED <<webcamActive, streamRef, liveStreams, video, metaPending, toast>>
  /\ UNCHANGED <<textVars, imageVars, mode, preprocessImage, runVars, fileVars>>

\* getUserMedia has answered with a stream
CameraGranted ==
  /\ camPending > 0
  /\ camPending' = camPending - 1
  /\ streamRef' = TRUE
  /\ liveStreams' = liveStreams + 1
  /\ IF video # "none"
     THEN video' = "attached" /\ metaPending' = TRUE
     ELSE UNCHANGED <<video, metaPending>>
  /\ UNCHANGED <<textVars, imageVars, mode, preprocessImage, webcamActive, webcamError,
                 runVars, toast, fileVars>>

\* getUserMedia has refused
CameraDenied ==
  /\ camPending > 0
  /\ camPending' = camPending - 1
  /\ WebcamFailed("Permission denied")
  /\ UNCHANGED <<textVars, imageVars, mode, preprocessImage, video, metaPending, runVars,
                 fileVars>>

\* video.onloadedmetadata
LoadedMetadata ==
  /\ metaPending
  /\ metaPending' = FALSE
  /\ video' = IF video = "attached" THEN "playing" ELSE video
  /\ webcamActive' = TRUE
  /\ ClearResult
  /\ toast' = "Webcam ativa"
  /\ UNCHANGED <<imageVars, mode, preprocessImage, webcamError, streamRef, liveStreams,
                 camPending, runVars, fileVars>>

\* the run button is rendered disabled
RunDisabled == (currentBlob = NoBlob /\ mode # "webcam") \/ isProcessing

\* img is rendered in upload mode when there is a preview URL
ImgShown == mode = "upload" /\ imageUrl # NoBlob

SetRun(r, rec) == runs' = [runs EXCEPT ![r] = rec]

\* a run ends: nothing of it is pending any more and its closure is dropped
EndRun(rec, outcome) ==
  [IdleRun EXCEPT !.pc = "done", !.outcome = outcome, !.worker = rec.worker,
                  !.calls = rec.calls]

\* runOCR from the automatic capture on (lines 235-265), for the run whose
\* record so far is rec: the image is drawn on the canvas and downloaded,
\* processing starts and preprocessIfNeeded is called.  drawImage throws on
\* an img whose load has failed (threw); nothing catches it there.
StartProcessing(r, rec, threw) ==
  IF threw
  THEN /\ SetRun(r, EndRun(rec, "aborted"))
       /\ UNCHANGED <<toast, ocrStatus, ocrProgress, isProcessing>>
  ELSE /\ toast' = "Imagem salva!"
       /\ ocrStatus' = "Iniciando OCR..."
       /\ ocrProgress' = 0
       /\ isProcessing' = TRUE
       /\ IF ~rec.pre0 \/ rec.blob0 = NoBlob
          THEN SetRun(r, [rec EXCEPT !.pc = "createWorker", !.blob = rec.blob0,
                                     !.calls = rec.calls + 1])
          ELSE SetRun(r, [rec EXCEPT !.pc = "imageLoad"])

\* whether drawImage(imgRef.current) can throw: the img is shown and its
\* image does not decode (it throws once the load has failed, not before)
DrawCanThrow(rec) == rec.mode0 = "upload" /\ ImgShown /\ ~Decodes(imageUrl)

\* a click on "Capturar e Ler Texto (OCR)": runOCR is called with the state
\* of this render in its closure
RunOCR ==
  /\ ~RunDisabled
  /\ \E r \in RunIds :
       /\ runs[r].pc \in {"idle", "done"}
       /\ \A q \in RunIds : q < r => runs[q].pc \notin {"idle", "done"}
       /\ LET rec == [IdleRun EXCEPT !.blob0 = currentBlob, !.mode0 = mode,
                                     !.pre0 = preprocessImage]
          IN  IF mode = "webcam"
              THEN \* the frame is drawn and canvas.toBlob is awaited
                   /\ SetRun(r, [rec EXCEPT !.pc = "capture",
                                            !.frame = IF video = "playing" THEN Frame
                                                      ELSE NoBlob])
                   /\ UNCHANGED <<toast, ocrStatus, ocrProgress, isProcessing>>
              ELSE \E threw \in {FALSE} \cup {DrawCanThrow(rec)} :
                     StartProcessing(r, rec, threw)
  /\ UNCHANGED <<textVars, imageVars, mode, preprocessImage, camVars, fileVars>>

\* the frame's canvas.toBlob has called back: lines 227-233 and on
CaptureDone(r) ==
  /\ runs[r].pc = "capture"
  /\ currentBlob' = runs[r].frame
  /\ IF runs[r].frame = NoBlob
     THEN /\ toast' = "Erro"
          /\ SetRun(r, EndRun(runs[r], "nocapture"))
          /\ UNCHANGED <<ocrStatus, ocrProgress, isProcessing>>
     ELSE StartProcessing(r, runs[r], FALSE)
  /\ UNCHANGED <<textVars, imageUrl, mode, preprocessImage, camVars, fileVars>>

\* the image that new Image() decodes from a blob
Decoded(b) == IF b.norm = 0 THEN picture ELSE Preprocess(picture, BlankCanvas)

\* image.onload in preprocessIfNeeded: the image is drawn on the canvas,
\* whatever it holds, and binarized, and canvas.toBlob is called; on a
\* canvas without pixels getImageData throws and the promise is never
\* settled
ImageLoaded(r) ==
  /\ runs[r].pc = "imageLoad"
  /\ Decodes(runs[r].blob0)
  /\ LET image == Decoded(runs[r].blob0)
     IN  IF ScaledWidth(image) = 0 \/ ScaledHeight(image) = 0
         THEN SetRun(r, [runs[r] EXCEPT !.pc = "stuck", !.outcome = "stuck"])
         ELSE \E canvas \in CanvasContents :
                SetRun(r, [runs[r] EXCEPT !.pc = "toBlob",
                                          !.image = Preprocess(image, canvas)])
  /\ UNCHANGED <<textVars, imageVars, mode, preprocessImage, camVars, fileVars, toast,
                 isProcessing, ocrStatus, ocrProgress>>

\* the image of preprocessIfNeeded fails to load: it has no onerror, so the
\* promise is never settled
ImageError(r) ==
  /\ runs[r].pc = "imageLoad"
  /\ ~Decodes(runs[r].blob0)
  /\ SetRun(r, [runs[r] EXCEPT !.pc = "stuck", !.outcome = "stuck"])
  /\ UNCHANGED <<textVars, imageVars, mode, preprocessImage, camVars, fileVars, toast,
                 isProcessing, ocrStatus, ocrProgress>>

\* canvas.toBlob of preprocessIfNeeded has called back; createWorker is called
ToBlobDone(r) ==
  /\ runs[r].pc = "toBlob"
  /\ currentBlob' = Normalized(runs[r].blob0)
  /\ SetRun(r, [runs[r] EXCEPT !.pc = "createWorker",
                               !.blob = Normalized(runs[r].blob0),
                               !.calls = runs[r].calls + 1])
  /\ UNCHANGED <<textVars, imageUrl, mode, preprocessImage, camVars, fileVars, toast,
                 isProcessing, ocrStatus, ocrProgress>>

\* the logger of the worker
Logger(r) ==
  /\ runs[r].pc \in {"createWorker", "recognize"}
  /\ ocrStatus' = "progress"
  /\ IF runs[r].pc = "recognize"
     THEN \E p \in ProgressValues : ocrProgress' = p
     ELSE UNCHANGED ocrProgress
  /\ UNCHANGED <<textVars, imageVars, mode, preprocessImage, camVars, fileVars, toast,
                 isProcessing, runs>>

\* createWorker has answered; setParameters is called
WorkerCreated(r) ==
  /\ runs[r].pc = "createWorker"
  /\ SetRun(r, [runs[r] EXCEPT !.pc = "setParameters", !.worker = "live",
                               !.calls = runs[r].calls + 1])
  /\ UNCHANGED <<textVars, imageVars, mode, preprocessImage, camVars, fileVars, toast,
                 isProcessing, ocrStatus, ocrProgress>>

\* setParameters has answered; recognize is called
ParametersSet(r) ==
  /\ runs[r].pc = "setParameters"
  /\ SetRun(r, [runs[r] EXCEPT !.pc = "recognize", !.calls = runs[r].calls + 1])
  /\ UNCHANGED <<textVars, imageVars, mode, preprocessImage, camVars, fileVars, toast,
                 isProcessing, ocrStatus, ocrProgress>>

\* recognize has answered with the text the engine reads in the image;
\* terminate is called
Recognized(r) ==
  /\ runs[r].pc = "recognize"
  /\ Decodes(runs[r].blob)
  /\ \E t \in Documents :
       SetRun(r, [runs[r] EXCEPT !.pc = "terminate", !.text = t,
                                 !.calls = runs[r].calls + 1])
  /\ UNCHANGED <<textVars, imageVars, mode, preprocessImage, camVars, fileVars, toast,
                 isProcessing, ocrStatus, ocrProgress>>

\* a finally block that leaves isProcessing as it is
FinallyStillProcessing ==
  /\ isProcessing' = isProcessing
  /\ ocrProgress' = 0

\* the finally block
Finally ==
  /\ isProcessing' = FALSE
  /\ ocrProgress' = 0

\* terminate has answered: lines 283-290 and the finally block
Terminated(r) ==
  /\ runs[r].pc = "terminate"
  /\ SetRun(r, EndRun([runs[r] EXCEPT !.worker = "terminated"], "ok"))
  /\ SetAndParse(Trim(runs[r].text))
  /\ toast' = "OCR concluído"
  /\ Finally
  /\ UNCHANGED <<imageVars, mode, preprocessImage, camVars, fileVars, ocrStatus>>

\* the catch block and the finally block
Catch(r) ==
  /\ SetRun(r, EndRun(runs[r], "failed"))
  /\ ocrStatus' = "Erro no OCR"
  /\ toast' = "Erro no OCR"
  /\ Finally

\* a call of the engine throws
EngineThrows(r) ==
  /\ runs[r].pc \in {"createWorker", "setParameters", "recognize", "terminate"}
  /\ Catch(r)
  /\ UNCHANGED <<textVars, imageVars, mode, preprocessImage, camVars, fileVars>>

RunStep ==
  \E r \in RunIds :
    \/ CaptureDone(r)
    \/ ImageLoaded(r)
    \/ ImageError(r)
    \/ ToBlobDone(r)
    \/ Logger(r)
    \/ WorkerCreated(r)
    \/ ParametersSet(r)
    \/ Recognized(r)
    \/ Terminated(r)
    \/ EngineThrows(r)

(* ---------------------------------------------------------------------- *)
(* The App component and the admin dashboard                               *)
(* ---------------------------------------------------------------------- *)

\* the variables of the OCRDetector component and of its surroundings
detectorVars ==
  <<imageUrl, mode, webcamActive, webcamError, ocrStatus, ocrProgress, ocrResult,
    extractedFields, preprocessImage, currentBlob, isProcessing, streamRef, video,
    liveStreams, camPending, metaPending, samplePending, document, picture,
    reading, runs, toast, extractions>>

\* String.prototype.toLowerCase on one character
LowerChar(c) ==
  IF c \in Range(UpperLetters)
  THEN LowerLetters[CHOOSE k \in DOMAIN UpperLetters : UpperLetters[k] = c]
  ELSE c

toLowerCase(s) == [k \in DOMAIN s |-> LowerChar(s[k])]

\* String.prototype.includes
Includes(s, t) == \E i \in 0..(Len(s) - Len(t)) : SubSeq(s, i + 1, i + Len(t)) = t

adminEmail == <<"a", "d", "m", "i", "n", "@", "g", "m", "a", "i", "l", ".", "c", "o", "m">>

\* a user of the authentication service; email is optional
UserOf(email) == Some([email |-> email])

Emails ==
  {Some(adminEmail), Some(<<"A", "d", "m", "i", "n", "@", "g", "m", "a", "i", "l", ".", "c", "o", "m">>), Some(<<"a", "d", "m", "i", "n", "@", "g", "m", "a", "i", "l", ".", "c", "o">>),
   Some(<<"u", "s", "e", "r", "@", "g", "m", "a", "i", "l", ".", "c", "o", "m">>), None}

Users == {UserOf(e) : e \in Emails}

\* session?.user ?? null
Sessions == Users \cup {None}

sUser == UserOf(Some(<<"u", "s", "e", "r", "@", "g", "m", "a", "i", "l", ".", "c", "o", "m">>))

\* user?.email === 'admin@gmail.com', without regard to case
isAdminIgnoringCase(u) ==
  u.some /\ u.v.email.some /\ toLowerCase(u.v.email.v) = toLowerCase(adminEmail)

\* user?.email === 'admin@gmail.com'
isAdmin(u) == u.some /\ u.v.email.some /\ u.v.email.v = adminEmail

Views == {"AuthLogin", "AdminDashboard", "MainLayout"}

\* what App returns for a user and a loading flag: the components it mounts
Render(u, l) ==
  IF l THEN {"Spinner"}
  ELSE IF ~u.some THEN {"AuthLogin"}
  ELSE IF isAdmin(u) THEN {"AdminDashboard"}
  ELSE {"MainLayout"}

Rendered == Render(user, isLoading)

\* number of rows of ocr_records in the model
MaxRecords == 2
\* number of calls of loadRecords awaiting their answer
MaxLoads == 2

OcrRecord(created_at, extracted_text, cnpj, data) ==
  [created_at |-> created_at, extracted_text |-> extracted_text,
   cnpj |-> cnpj, data |-> data]

\* the rows the table may hold, with distinct times of creation
Rows ==
  {OcrRecord(1, <<"N", "o", "t", "a", " ", "A", "1">>, None, None),
   OcrRecord(2, <<"t", "o", "t", "a", "l">>, Some(<<"1", "a">>), Some(<<"1", "2", "/", "0", "3">>)),
   OcrRecord(3, <<"x">>, Some(<<"A", "1">>), None),
   OcrRecord(4, <<"b", " ", "1", "2">>, None, Some(<<"1", "A">>))}

\* .order('created_at', { ascending: false })
RECURSIVE NewestFirst(_)
NewestFirst(rows) ==
  IF rows = {} THEN <<>>
  ELSE LET newest == CHOOSE r \in rows : \A q \in rows : q.created_at <= r.created_at
       IN  <<newest>> \o NewestFirst(rows \ {newest})

\* the answers of the query
Tables == {NewestFirst(rows) : rows \in {s \in SUBSET Rows : Cardinality(s) <= MaxRecords}}

\* what the administrator types in the search box
SearchTerms == {<<>>, <<"a">>, <<"A">>, <<"1">>, <<"1", "2">>, <<"a", "1">>, <<"z">>}

\* the predicate of records.filter, every comparison with the case of the term
RecordMatchesExactCase(record, term) ==
  \/ record.cnpj.some /\ Includes(record.cnpj.v, term)
  \/ Includes(record.extracted_text, term)
  \/ record.data.some /\ Includes(record.data.v, term)

\* the predicate of records.filter
RecordMatches(record, term) ==
  \/ record.cnpj.some /\ Includes(record.cnpj.v, term)
  \/ Includes(toLowerCase(record.extracted_text), toLowerCase(term))
  \/ record.data.some /\ Includes(record.data.v, term)

\* the value filterRecords passes to setFilteredRecords
filterRecords(recs, term) ==
  IF term = <<>> THEN recs
  ELSE SelectSeq(recs, LAMBDA record : RecordMatches(record, term))

dashVars == <<records, filteredRecords, searchTerm, isLoadingRecords, loads, filterPending>>

\* AdminDashboard is not mounted
NoDashboard ==
  /\ records = <<>>
  /\ filteredRecords = <<>>
  /\ searchTerm = <<>>
  /\ isLoadingRecords = TRUE
  /\ loads = 0
  /\ filterPending = FALSE

\* the state of a dashboard that is mounted (its effects call loadRecords
\* and are to call filterRecords) or that has left the tree
FreshDashboard(calls, effect) ==
  /\ records' = <<>>
  /\ filteredRecords' = <<>>
  /\ searchTerm' = <<>>
  /\ isLoadingRecords' = TRUE
  /\ loads' = calls
  /\ filterPending' = effect

\* the state after the first render of App: getSession is pending
InitApp ==
  /\ user = None
  /\ isLoading = TRUE
  /\ sessionPending = TRUE
  /\ session \in Sessions
  /\ NoDashboard

\* App showing MainLayout to a signed-in user
InitSignedIn ==
  /\ user = sUser
  /\ isLoading = FALSE
  /\ sessionPending = FALSE
  /\ session = sUser
  /\ NoDashboard

\* a render of App with a new user and loading flag; the dashboard is mounted
\* when it enters the tree, keeps its state while it stays, and loses it
\* when it leaves
SetApp(u, l) ==
  /\ user' = u
  /\ isLoading' = l
  /\ IF "AdminDashboard" \in Render(u, l)
     THEN IF "AdminDashboard" \in Rendered
          THEN UNCHANGED dashVars
          ELSE FreshDashboard(1, TRUE)
     ELSE FreshDashboard(0, FALSE)
  /\ UNCHANGED detectorVars

\* getSession().then(...): the stored session is read
SessionResolved ==
  /\ sessionPending
  /\ sessionPending' = FALSE
  /\ SetApp(session, FALSE)
  /\ UNCHANGED session

\* the session changes at the service (a sign-in or sign-out elsewhere, an
\* expiry, a refresh) and the callback of onAuthStateChange is called with it
AuthStateChange ==
  /\ \E s \in Sessions : session' = s /\ SetApp(s, isLoading)
  /\ UNCHANGED sessionPending

\* AuthLogin: signInWithPassword has opened a session and
\* onLoginSuccess(data.user) is called
handleLoginSuccess ==
  /\ "AuthLogin" \in Rendered
  /\ \E u \in Users : session' = u /\ SetApp(u, isLoading)
  /\ UNCHANGED sessionPending

\* the "Sair" buttons of MainLayout call onLogout, which is App's handleLogout
handleLogout ==
  /\ "MainLayout" \in Rendered
  /\ SetApp(None, isLoading)
  /\ UNCHANGED <<sessionPending, session>>

\* handleLogout of AdminDashboard: supabase.auth.signOut() and onLogout()
dashboardLogout ==
  /\ "AdminDashboard" \in Rendered
  /\ session' = None
  /\ SetApp(None, isLoading)
  /\ UNCHANGED sessionPending

appOnly == <<user, isLoading, sessionPending, session, detectorVars>>

\* onChange of the search box
SetSearchTerm ==
  /\ "AdminDashboard" \in Rendered
  /\ \E t \in SearchTerms :
       /\ t # searchTerm
       /\ searchTerm' = t
  /\ filterPending' = TRUE
  /\ UNCHANGED <<records, filteredRecords, isLoadingRecords, loads, appOnly>>

\* the Atualizar button calls loadRecords
Refresh ==
  /\ "AdminDashboard" \in Rendered
  /\ ~isLoadingRecords
  /\ loads < MaxLoads
  /\ loads' = loads + 1
  /\ UNCHANGED <<records, filteredRecords, searchTerm, isLoadingRecords, filterPending, appOnly>>

\* loadRecords continues with the rows: setRecords(data || [])
LoadResolved ==
  /\ loads > 0
  /\ loads' = loads - 1
  /\ \E data \in Tables : records' = data
  /\ isLoadingRecords' = FALSE
  /\ filterPending' = TRUE
  /\ UNCHANGED <<filteredRecords, searchTerm, appOnly>>

\* loadRecords continues with an error, or the query throws
LoadFailed ==
  /\ loads > 0
  /\ loads' = loads - 1
  /\ isLoadingRecords' = FALSE
  /\ UNCHANGED <<records, filteredRecords, searchTerm, filterPending, appOnly>>

\* the effect on [records, searchTerm]
FilterEffect ==
  /\ filterPending
  /\ filteredRecords' = filterRecords(records, searchTerm)
  /\ filterPending' = FALSE
  /\ UNCHANGED <<records, searchTerm, isLoadingRecords, loads, appOnly>>

(* ---------------------------------------------------------------------- *)
(* Specifications                                                          *)
(* ---------------------------------------------------------------------- *)

Init == InitComponent /\ InitApp /\ document \in Documents /\ picture \in Pictures

Next ==
  \/ FileChangeTxt \/ TxtLoaded \/ FileChangeImage \/ FileChangeOther
  \/ TextareaChange \/ ReExtract \/ TogglePreprocess
  \/ UploadButton \/ WebcamButton \/ HandleSample \/ SampleLoaded \/ SampleFailed
  \/ StartWebcam \/ CameraGranted \/ CameraDenied \/ LoadedMetadata
  \/ RunOCR \/ RunStep
  \/ SessionResolved \/ AuthStateChange \/ handleLoginSuccess \/ handleLogout
  \/ dashboardLogout \/ SetSearchTerm \/ Refresh \/ LoadResolved \/ LoadFailed \/ FilterEffect

Spec == Init /\ [][Next]_vars

InitOCR == InitComponent /\ InitSignedIn /\ document = <<>> /\ picture = sPicture

NextOCR ==
  \/ FileChangeImage \/ FileChangeOther \/ TogglePreprocess \/ UploadButton
  \/ WebcamButton \/ RunOCR \/ RunStep \/ TextareaChange \/ ReExtract

\* recognition of images, the camera never started
SpecOCR == InitOCR /\ [][NextOCR]_vars

\* the callbacks a run waits for, delivered or failed
Callback(r) ==
  \/ CaptureDone(r) \/ ImageLoaded(r) \/ ImageError(r) \/ ToBlobDone(r)
  \/ WorkerCreated(r) \/ ParametersSet(r) \/ Recognized(r) \/ Terminated(r)
  \/ EngineThrows(r)

\* the browser and the engine answer every call in the end
Answered == \A r \in 1..MaxRuns : WF_vars(Callback(r))

\* recognition of images, every pending callback delivered or failed
FairSpecOCR == SpecOCR /\ Answered

NextCamera ==
  \/ UploadButton \/ WebcamButton \/ FileChangeImage
  \/ HandleSample \/ SampleLoaded \/ SampleFailed
  \/ StartWebcam \/ CameraGranted \/ CameraDenied \/ LoadedMetadata

\* the camera and the switches of mode, no recognition
SpecCamera == InitOCR /\ [][NextCamera]_vars

InitNormalize == InitComponent /\ InitSignedIn /\ document = <<>> /\ picture \in Pictures

NextNormalize ==
  \/ FileChangeImage \/ TogglePreprocess \/ RunOCR
  \/ \E r \in RunIds :
       ImageLoaded(r) \/ ImageError(r) \/ ToBlobDone(r) \/ EngineThrows(r)

\* the pre-processing of the selected image, up to the call of the engine
SpecNormalize == InitNormalize /\ [][NextNormalize]_vars

\* the states in which parseFields was the last to write extractedFields,
\* called on the text that is now in ocrResult
Parsed == extractions > 0

InitExtract == InitComponent /\ InitSignedIn /\ document \in ExtractTexts /\ picture = sPicture

NextExtract == FileChangeTxt \/ TxtLoaded \/ TextareaChange \/ ReExtract

\* field extraction on text files and on edited text
SpecExtract == InitExtract /\ [][NextExtract]_vars

InitAdmin == InitComponent /\ InitApp /\ document = <<>> /\ picture = sPicture

NextAdmin ==
  \/ SessionResolved \/ AuthStateChange \/ handleLoginSuccess \/ handleLogout
  \/ dashboardLogout \/ SetSearchTerm \/ Refresh \/ LoadResolved \/ LoadFailed \/ FilterEffect

\* the selection of the view by App, and the admin dashboard
SpecAdmin == InitAdmin /\ [][NextAdmin]_vars

NextSelect ==
  \/ FileChangeImage \/ HandleSample \/ SampleLoaded \/ SampleFailed \/ RunOCR
  \/ \E r \in RunIds :
       \/ WorkerCreated(r) \/ ParametersSet(r) \/ Recognized(r) \/ Terminated(r)
       \/ EngineThrows(r)

\* recognition of images while images are selected
SpecSelect == InitOCR /\ [][NextSelect]_vars

InitWebcam ==
  InitDetector(MaxOverlap) /\ InitSignedIn /\ document = <<>> /\ picture = sPicture

NextWebcam ==
  \/ WebcamButton \/ StartWebcam \/ CameraGranted \/ LoadedMetadata \/ RunOCR
  \/ \E r \in RunIds :
       \/ CaptureDone(r) \/ WorkerCreated(r) \/ ParametersSet(r)
       \/ Recognized(r) \/ Terminated(r) \/ EngineThrows(r)

\* recognition of frames of the camera
SpecWebcam == InitWebcam /\ [][NextWebcam]_vars

(* ---------------------------------------------------------------------- *)
(* Field extraction                                                        *)
(* ---------------------------------------------------------------------- *)

\* C1: in a document with a total label followed by an amount written with
\* '.' as the decimal point and no thousands separator, parseFields sets
\* total to the value of that amount ("VALOR LIQUIDO 45.00" gives 45.00).
C1_DotDecimalTotal ==
  Parsed => \A c \in DotCases :
              ocrResult = c.text => extractedFields.total = Some(c.total)

\* C2: in a document with a total label followed by an amount written with
\* '.' between groups of three digits and ',' as the decimal point,
\* parseFields sets total to the value of that amount
\* ("TOTAL A PAGAR: 1.234,56" gives 1234.56).
C2_CommaDecimalTotal ==
  Parsed => \A c \in CommaCases :
              ocrResult = c.text => extractedFields.total = Some(c.total)

C2_Witness ==
  /\ Parsed
  /\ ocrResult = <<"T", "O", "T", "A", "L", " ", "A", " ", "P", "A", "G", "A", "R", ":", " ", "1", ".", "2", "3", "4", ",", "5", "6">>
  /\ extractedFields.total = Some([m |-> 123456, k |-> 2])

\* C3: a document whose tax ID is 14 digits standing as a word, with each of
\* the four separators written or left out, gets cnpj set to the same digits
\* in the form DD.DDD.DDD/DDDD-DD.
C3_TaxIdNormalized ==
  Parsed => \A c \in TaxIdCases :
              ocrResult = c.text => extractedFields.cnpj = Some(c.cnpj)

C3_Witness ==
  /\ Parsed
  /\ ocrResult = <<"1", "2", "3", "4", "5", "6", "7", "8", "0", "0", "0", "1", "9", "9">>
  /\ extractedFields.cnpj = Some(<<"1", "2", ".", "3", "4", "5", ".", "6", "7", "8", "/", "0", "0", "0", "1", "-", "9", "9">>)

\* C4: a tax ID written in the canonical form is returned as written, and
\* extracting from the tax ID an extraction has produced gives it again.
C4_CanonicalFixedPoint ==
  /\ [](Parsed => \A c \in CanonCases :
                    ocrResult = c.text => extractedFields.cnpj = Some(c.cnpj))
  /\ [][(extractedFields.cnpj.some /\ ocrResult = extractedFields.cnpj.v /\ ReExtract)
          => extractedFields'.cnpj = extractedFields.cnpj]_vars

C4_Witness ==
  /\ Parsed
  /\ extractedFields.cnpj.some
  /\ ocrResult = extractedFields.cnpj.v
  /\ document # ocrResult

\* C5: a document with a date D{1,2}[-/]D{1,2}[-/]DDDD standing as a word gets
\* data set to the first such date, character for character, whether or not
\* it is a date of the calendar.
C5_DateVerbatim ==
  Parsed => \A c \in DateCases :
              ocrResult = c.text => extractedFields.data = Some(c.data)

C5_Witness ==
  /\ Parsed
  /\ ocrResult = <<"3", "1", "/", "0", "2", "/", "9", "9", "9", "9">>
  /\ extractedFields.data = Some(<<"3", "1", "/", "0", "2", "/", "9", "9", "9", "9">>)

\* C8: when the plain pattern of the tax ID or of the date matches somewhere,
\* its first match is the result even if the labelled pattern matches
\* earlier; the labelled pattern decides only when the plain one matches
\* nowhere.
C8_PlainPatternFirst ==
  Parsed => \A c \in PriorityCases \cup LabelOnlyCases :
              ocrResult = c.text => /\ extractedFields.cnpj = c.cnpj
                                    /\ extractedFields.data = c.data

C8_Witness ==
  /\ Parsed
  /\ ocrResult = <<"C", "N", "P", "J", ":", " ", "1", "2", "3", "4", "5", "6", "7", "8", "0", "0", "0", "1", "9", "9", "9", " ", "1", "1", ".", "2", "2", "2", ".", "3", "3", "3", "/", "0", "0", "0", "1", "-", "4", "4">>
  /\ extractedFields.cnpj = Some(<<"1", "1", ".", "2", "2", "2", ".", "3", "3", "3", "/", "0", "0", "0", "1", "-", "4", "4">>)

(* ---------------------------------------------------------------------- *)
(* Recognition runs                                                        *)
(* ---------------------------------------------------------------------- *)

\* C6: for a text in which no tax ID, no date and no labelled total matches,
\* the empty text included, parseFields ends normally with cnpj, data and
\* total all null.
C6_NoMatchAllNull ==
  Parsed /\ ocrResult \in NoFieldTexts \cup {Trim(t) : t \in sNoFields}
    => extractedFields = NoFields

C6_Witness ==
  /\ Parsed
  /\ ocrResult = <<>>
  /\ extractedFields = NoFields
  /\ \E r \in RunIds : runs[r].outcome = "ok"

C9_RecognitionFailureHandled ==
  [][\A r \in RunIds :
       /\ EngineThrows(r) =>
            /\ ocrStatus' = "Erro no OCR"
            /\ toast' = "Erro no OCR"
            /\ isProcessing' = FALSE
            /\ ocrProgress' = 0
            /\ ocrResult' = ocrResult
            /\ extractedFields' = extractedFields
            /\ runs'[r].pc = "done"
            /\ runs'[r].calls = runs[r].calls
       /\ (runs[r].outcome = "failed" /\ runs'[r].outcome = "failed") =>
            runs'[r].calls = runs[r].calls]_vars

C9_Witness ==
  /\ \E r \in RunIds : runs[r].outcome = "failed" /\ runs[r].calls = 3
  /\ ocrStatus = "Erro no OCR"
  /\ toast = "Erro no OCR"
  /\ ~isProcessing
  /\ extractedFields.total.some

ErrorNotices == {"Erro", "Erro no OCR", "Erro na webcam", "Formato não suportado"}

\* C10: when the image of a run does not decode, in the preview or in the
\* pre-processing, the user is shown an error notice and the component is
\* not left processing.
C10_DecodeFailureSurfaced ==
  \A r \in RunIds :
    runs[r].outcome \in {"aborted", "stuck"} =>
      toast \in ErrorNotices /\ ~isProcessing

(* ---------------------------------------------------------------------- *)
(* File selection                                                          *)
(* ---------------------------------------------------------------------- *)

\* C11: a file that is neither text/plain nor image/* raises the notice
\* "Formato não suportado" and nothing else: currentBlob, imageUrl, mode, the
\* webcam state, ocrResult, extractedFields and the runs stay as they are.
C11_UnsupportedFileRejected ==
  [][(toast' = "Formato não suportado" /\ toast # "Formato não suportado")
       => UNCHANGED <<textVars, imageVars, mode, preprocessImage, camVars, runVars,
                      fileVars>>]_vars

C11_Witness ==
  /\ toast = "Formato não suportado"
  /\ currentBlob # NoBlob
  /\ extractedFields # NoFields
  /\ ocrResult # <<>>

(* ---------------------------------------------------------------------- *)
(* Pre-processing                                                          *)
(* ---------------------------------------------------------------------- *)

\* C12: when preprocessIfNeeded completes, the source image that is stored
\* (currentBlob) is the image it was before the call: the normalized image
\* is another buffer and does not take its place.
C12_SourceNotReplaced ==
  [][\A r \in RunIds :
       (runs[r].pc = "toBlob" /\ runs'[r].pc = "createWorker")
         => currentBlob' = currentBlob]_vars

\* C13: the image a run hands to the engine is the image selected for that
\* run, normalized exactly when the pre-processing of that run is on,
\* whatever the runs before it did.
C13_RunImageIsOwn ==
  \A r \in RunIds :
    runs[r].pc \in {"createWorker", "setParameters", "recognize", "terminate"}
      => runs[r].blob =
           [id |-> IF runs[r].mode0 = "webcam" THEN runs[r].frame.id
                   ELSE runs[r].blob0.id,
            norm |-> IF runs[r].pre0 THEN 1 ELSE 0]

\* C14: in the normalized image every pixel has alpha 255 and R = G = B,
\* equal to 255 when the luminance of the pixel in the scaled and filtered
\* buffer is more than 0.9 times the mean luminance of the buffer, and to 0
\* when it is not.
C14_BinarizationRule ==
  \A r \in RunIds :
    runs[r].pc = "toBlob" =>
      LET src == Decoded(runs[r].blob0).px
          out == runs[r].image.px
      IN  /\ Len(out) = Len(src)
          /\ \A i \in DOMAIN out :
               /\ out[i].a = 255
               /\ out[i].r \in {0, 255}
               /\ out[i].g = out[i].r
               /\ out[i].b = out[i].r
               /\ out[i].r = 255 <=>
                    10 * Len(src) * Luma(src[i]) > 9 * SumLuma(src)

C14_Witness ==
  \E r \in RunIds :
    /\ runs[r].pc = "toBlob"
    /\ picture.px = <<Grey, Transparent>>
    /\ runs[r].image.px = <<White, Black>>

\* C15: the normalized image of an image no wider than 1600 has its
\* dimensions; that of a wider image is 1600 wide and as high as the height
\* times 1600 / width rounded to the nearest integer, halves up; no
\* dimension grows.
C15_NormalizerDimensions ==
  \A r \in RunIds :
    runs[r].pc = "toBlob" =>
      LET src == Decoded(runs[r].blob0)
          out == runs[r].image
      IN  /\ src.width <= 1600 => out.width = src.width /\ out.height = src.height
          /\ src.width > 1600 =>
               /\ out.width = 1600
               /\ 2 * src.width * out.height <= 2 * src.height * 1600 + src.width
               /\ 2 * src.width * out.height > 2 * src.height * 1600 - src.width
          /\ out.width <= src.width
          /\ out.height <= src.height

C15_Witness ==
  \E r \in RunIds :
    /\ runs[r].pc = "toBlob"
    /\ picture.width = 3200 /\ picture.height = 3
    /\ runs[r].image.width = 1600 /\ runs[r].image.height = 2

\* C16: the normalized image is the same whatever the canvas held when the
\* normalizer began: it is what the normalizer makes of the source on a
\* blank canvas.
C16_NormalizerDeterministic ==
  [][\A r \in RunIds :
       (runs[r].pc = "imageLoad" /\ runs'[r].pc = "toBlob")
         => runs'[r].image = Preprocess(Decoded(runs[r].blob0), BlankCanvas)]_vars

C16_Witness ==
  \E r \in RunIds :
    /\ runs[r].pc = "toBlob"
    /\ runs[r].blob0.norm = 1
    /\ picture.px = <<Transparent, Red>>
    /\ runs[r].image.px = <<Black, White>>

(* ---------------------------------------------------------------------- *)
(* The view App selects and the records the dashboard shows                *)
(* ---------------------------------------------------------------------- *)

\* C17: once loading has finished App shows exactly one of AuthLogin,
\* AdminDashboard and MainLayout: AdminDashboard if and only if a user is
\* present and its email is 'admin@gmail.com', MainLayout for a present user
\* with any other email, AuthLogin when there is no user.
C17_AdminByEmailAlone ==
  ~isLoading =>
    /\ Cardinality(Rendered \cap Views) = 1
    /\ ("AdminDashboard" \in Rendered) <=> (user.some /\ user.v.email = Some(adminEmail))
    /\ (user.some /\ user.v.email # Some(adminEmail)) => "MainLayout" \in Rendered
    /\ ~user.some => "AuthLogin" \in Rendered

\* the administrator is shown the dashboard with rows loaded
C17_Witness ==
  /\ ~isLoading
  /\ user = UserOf(Some(adminEmail))
  /\ Rendered = {"AdminDashboard"}
  /\ Len(records) = MaxRecords

\* C18: after the filter effect has run, filteredRecords is the subsequence
\* of records, in their order, of the rows whose cnpj contains the search
\* term, or whose data contains it, or whose extracted_text contains it
\* without regard to case; with an empty term it is records itself; records
\* are newest first.
C18_RecordFiltering ==
  ("AdminDashboard" \in Rendered /\ ~filterPending) =>
    /\ filteredRecords =
         SelectSeq(records, LAMBDA r :
           \/ r.cnpj.some /\ Includes(r.cnpj.v, searchTerm)
           \/ r.data.some /\ Includes(r.data.v, searchTerm)
           \/ Includes(toUpperCase(r.extracted_text), toUpperCase(searchTerm)))
    /\ searchTerm = <<>> => filteredRecords = records
    /\ \A i, j \in DOMAIN records : i < j => records[i].created_at > records[j].created_at

\* a term that one row matches only without regard to case, in its text,
\* and that the cnpj of the other row matches only in the other case
C18_Witness ==
  /\ "AdminDashboard" \in Rendered
  /\ ~filterPending
  /\ searchTerm = <<"a", "1">>
  /\ records = <<OcrRecord(3, <<"x">>, Some(<<"A", "1">>), None), OcrRecord(1, <<"N", "o", "t", "a", " ", "A", "1">>, None, None)>>
  /\ filteredRecords = <<OcrRecord(1, <<"N", "o", "t", "a", " ", "A", "1">>, None, None)>>

(* ---------------------------------------------------------------------- *)
(* The fields and the text they were read from                             *)
(* ---------------------------------------------------------------------- *)

\* C19: in every reachable state of OCRDetector the displayed
\* extractedFields are the fields parseFields extracts from the text now in
\* ocrResult, whatever the user did: selected a file, ran the recognition,
\* loaded a text file, edited the text area, or switched the mode.
C19_FieldsTrackText == extractedFields = parseFields(ocrResult)

(* ---------------------------------------------------------------------- *)
(* Calls of runOCR in progress                                             *)
(* ---------------------------------------------------------------------- *)

\* C20: at most one call of runOCR is in progress: from the click that
\* starts one until it finishes the run button is disabled, in upload mode
\* and in webcam mode alike, so no second call starts.
C20_OneRunInFlight ==
  Cardinality({r \in RunIds : runs[r].pc \notin {"idle", "done"}}) <= 1

(* ---------------------------------------------------------------------- *)
(* The occurrence the total is read from                                   *)
(* ---------------------------------------------------------------------- *)

\* C21: when the text holds several labelled amounts, total is the amount
\* at the leftmost position where a total label begins and a valid amount
\* follows; a later occurrence never replaces it.
C21_LeftmostLabelWins ==
  Parsed => \A c \in LeftmostCases :
              ocrResult = c.text => extractedFields.total = Some(c.total)

C21_Witness ==
  /\ Parsed
  /\ ocrResult = <<"T", "O", "T", "A", "L", " ", "4", "5", ",", "0", "0", "\n", "v", "a", "l", "o", "r", "\t", "l", "i", "q", "u", "i", "d", "o", " ", "1", ".", "2", "3", "4", ",", "5", "6">>
  /\ extractedFields.total = Some(Decimal(4500, 2))

\* C22: after a total label only characters that are not digits are
\* skipped: when the first digits after the label begin no valid amount,
\* that label gives no total, even if a valid amount stands further on.
C22_AmountAtFirstDigit ==
  Parsed => (ocrResult \in FirstDigitCases => extractedFields.total = None)

C22_Witness ==
  /\ Parsed
  /\ ocrResult = <<"T", "O", "T", "A", "L", ":", " ", "R", "$", " ", "1", "2", "3", "4", ",", "5", "6", " ", "x", " ", "3", ",", "4", "5">>
  /\ extractedFields.total = None

\* C23: parseFields writes extractedFields and nothing else: ocrResult and
\* the rest of the component's state are as before; and the fields are those
\* of the text in upper case, so a label in lower or mixed case is found
\* like one in upper case.
C23_ExtractionLeavesText ==
  [][ReExtract =>
          /\ ocrResult' = ocrResult
          /\ UNCHANGED <<imageVars, mode, preprocessImage, camVars, runVars, toast,
                         fileVars>>
          /\ extractedFields' = ParseFields(toUpperCase(ocrResult))]_vars

\* a label in lower case, with a tab in it, is found by the repeated
\* extraction, and the text keeps its case
C23_Witness ==
  /\ extractions = 2
  /\ ocrResult = <<"v", "a", "l", "o", "r", "\t", "l", "i", "q", "u", "i", "d", "o", " ", "4", "5", ",", "0", "0">>
  /\ extractedFields.total = Some(Decimal(4500, 2))

(* ---------------------------------------------------------------------- *)
(* The image the engine is given                                           *)
(* ---------------------------------------------------------------------- *)

\* C24: with the pre-process option off the image goes to the engine as it
\* is: worker.recognize receives the image that was selected, or in webcam
\* mode the frame that the run captured.
C24_EngineGetsTheImage ==
  \A r \in RunIds :
    (runs[r].pc = "recognize" /\ ~runs[r].pre0) =>
      runs[r].blob = (IF runs[r].mode0 = "webcam" THEN runs[r].frame ELSE runs[r].blob0)

(* ---------------------------------------------------------------------- *)
(* The form of the tax ID                                                  *)
(* ---------------------------------------------------------------------- *)

\* DD.DDD.DDD/DDDD-DD
IsCanonicalCnpj(s) ==
  /\ Len(s) = 18
  /\ \A i \in 1..18 :
       s[i] \in (CASE i \in {3, 7} -> {"."} [] i = 11 -> {"/"} [] i = 16 -> {"-"}
                   [] OTHER -> Digits)

\* C25: in every reachable state extractedFields.cnpj is null or a string
\* of 18 characters of the form DD.DDD.DDD/DDDD-DD: no match of the tax ID
\* patterns is kept unreformatted.
C25_CnpjCanonical ==
  extractedFields.cnpj.some => IsCanonicalCnpj(extractedFields.cnpj.v)

\* a tax ID written with other separators of the pattern
C25_Witness ==
  /\ Parsed
  /\ ocrResult = <<"1", "2", "/", "3", "4", "5", "-", "6", "7", "8", ".", "0", "0", "0", "1", ".", "9", "9">>
  /\ extractedFields.cnpj = Some(<<"1", "2", ".", "3", "4", "5", ".", "6", "7", "8", "/", "0", "0", "0", "1", "-", "9", "9">>)

(* ---------------------------------------------------------------------- *)
(* The end of a run                                                        *)
(* ---------------------------------------------------------------------- *)

\* C26: a run that has set isProcessing to true sets it back to false in the
\* end, whether the recognition succeeds, the engine throws or the image is
\* pre-processed, provided every pending callback is delivered or failed.
C26_ProcessingEnds == isProcessing ~> ~isProcessing

(* ---------------------------------------------------------------------- *)
(* The result and the image on display                                     *)
(* ---------------------------------------------------------------------- *)

\* C27: when a run completes and stores ocrResult and extractedFields, the
\* text was recognized from the image that is selected at that moment:
\* selecting another image while the run is in progress does not end with
\* the text of the old image shown for the new one.
C27_ResultOfSelectedImage ==
  [][\A r \in RunIds :
       Terminated(r) => runs[r].blob.id = imageUrl'.id /\ runs[r].blob.id = currentBlob'.id]_vars

(* ---------------------------------------------------------------------- *)
(* Logout                                                                  *)
(* ---------------------------------------------------------------------- *)

\* C28: after a logout from AdminDashboard or from MainLayout the user of
\* App is null and the session of the authentication service is signed out:
\* the two agree, and a later session check finds no user.
C28_LogoutEndsSession ==
  [][(handleLogout \/ dashboardLogout) => (user' = None /\ session' = None)]_vars

(* ---------------------------------------------------------------------- *)
(* The recognition worker                                                  *)
(* ---------------------------------------------------------------------- *)

\* C29: every worker that createWorker has created is eventually terminated,
\* when the run succeeds and when setParameters or recognize throws.
C29_WorkerReleased ==
  \A r \in 1..MaxRuns : (runs[r].worker = "live") ~> (runs[r].worker = "terminated")

(* ---------------------------------------------------------------------- *)
(* The camera stream                                                       *)
(* ---------------------------------------------------------------------- *)

\* C30: in upload mode no camera stream is open, and webcamActive is true
\* only while a stream is held and open, whatever the order of the camera's
\* answer, the metadata event, the switches of mode and stopWebcam.
C30_NoStreamOutsideWebcam ==
  /\ mode = "upload" => liveStreams = 0
  /\ webcamActive => (streamRef /\ liveStreams > 0)

====
